---------------------------- MODULE Spec2Model ----------------------------
(***************************************************************************)
(* Model of the compression package: the Lempel-Ziv bit coder and its file *)
(* framing (lempel_ziv.py), the Burrows-Wheeler transform                  *)
(* (burrows_wheeler.py) and the Huffman coder with its BWT pipeline        *)
(* (huffman.py).                                                           *)
(*                                                                         *)
(* A Python str is a sequence of characters.  The characters '0' and '1'   *)
(* of bit strings are the numbers 0 and 1; every other character is its    *)
(* code point, so that < on characters is Python's order on them.  A dict  *)
(* whose iteration order is never observed is a function; a dict that is   *)
(* iterated in insertion order is a sequence of [k, v] records.  The       *)
(* outcome of a call is a record [err, val]: err = "none" when the call    *)
(* returned val, and the name of the exception when it raised.             *)
(***************************************************************************)
EXTENDS Integers, Sequences, FiniteSets, TLC

\* ------------------------------------------------------------- bounds
\* longest input bit string of the Lempel-Ziv coder
MaxBits == 10
\* longest payload / raw stream of the file framer
MaxPayload == 6
\* largest file length written into the length prefix
MaxFileLength == 6
\* longest input string of the Burrows-Wheeler transform
MaxLen == 5
\* longest symbol list of the Huffman coder
MaxSymbols == 6

\* the characters of the BWT / Huffman inputs: 'a', 'b', 'c', 'd'
Alphabet == {97, 98, 99, 100}

VARIABLES
  \* Lempel-Ziv coder: compress_data's locals, then decompress_data's
  lz_pc, data_bits, lexicon, result, curr_string, index, i,
  compressed, d_lexicon, d_result, d_curr_string, d_index, d_i, decompressed,
  \* history of the coder steps (a step is a loop iteration whose candidate or
  \* probe matched): what compress_data matched and emitted and what
  \* decompress_data matched and emitted, each with index and lexicon after it
  c_trace, d_trace,
  \* file framer
  fr_pc, payload, file_length, to_write, file_bytes, read_bits, unframed,
  \* Burrows-Wheeler transform
  bw_pc, s, bwt_result, rev_idx, rev_result,
  \* Huffman coder and BWT-Huffman pipeline
  hf_pc, raw_file_list, huf_file, huf_decoded, bwt_huf_decoded

lzvars == <<lz_pc, data_bits, lexicon, result, curr_string, index, i,
            compressed, d_lexicon, d_result, d_curr_string, d_index, d_i,
            decompressed, c_trace, d_trace>>
frvars == <<fr_pc, payload, file_length, to_write, file_bytes, read_bits,
            unframed>>
bwvars == <<bw_pc, s, bwt_result, rev_idx, rev_result>>
hfvars == <<hf_pc, raw_file_list, huf_file, huf_decoded, bwt_huf_decoded>>
vars == <<lzvars, frvars, bwvars, hfvars>>

\* ------------------------------------------------------------- helpers
\* all sequences over S of length lo..hi
SeqsOf(S, lo, hi) == UNION {[1..n -> S] : n \in lo..hi}

\* Python's s[k:] for k >= 0: an index past the end gives the empty string
DropFirst(str, k) == IF k >= Len(str) THEN <<>> ELSE SubSeq(str, k + 1, Len(str))

\* d[k] = v on a dict
Put(d, k, v) == [x \in (DOMAIN d) \cup {k} |-> IF x = k THEN v ELSE d[x]]

\* d.pop(k)
Pop(d, k) == [x \in (DOMAIN d) \ {k} |-> d[x]]

Ok(v) == [err |-> "none", val |-> v]
Raise(e) == [err |-> e, val |-> <<>>]

\* ------------------------------------------------- lempel_ziv.py: coder
\* bin(n)[2:]
RECURSIVE Bin(_)
Bin(n) == IF n < 2 THEN <<n>> ELSE Append(Bin(n \div 2), n % 2)

\* math.log2(index).is_integer(), for index >= 1
RECURSIVE IsPowerOfTwo(_)
IsPowerOfTwo(n) ==
  IF n = 1 THEN TRUE
  ELSE IF n % 2 = 1 THEN FALSE
  ELSE IsPowerOfTwo(n \div 2)

InitLexicon == [k \in {<<0>>, <<1>>} |-> k]

\* add_key_to_lexicon testing index + 1 for a power of two
add_key_to_lexicon_late_growth(lex, cs, idx, last_match_id) ==
  LET l1 == Put(Pop(lex, cs), cs \o <<0>>, last_match_id)
      l2 == IF IsPowerOfTwo(idx + 1)
            THEN [k \in DOMAIN l1 |-> <<0>> \o l1[k]]
            ELSE l1
  IN  Put(l2, cs \o <<1>>, Bin(idx))

add_key_to_lexicon(lex, cs, idx, last_match_id) ==
  LET l1 == Put(Pop(lex, cs), cs \o <<0>>, last_match_id)
      l2 == IF IsPowerOfTwo(idx)
            THEN [k \in DOMAIN l1 |-> <<0>> \o l1[k]]
            ELSE l1
  IN  Put(l2, cs \o <<1>>, Bin(idx))

\* the padding loop appending "1" instead of "0"
RECURSIVE PadCandidate_ones(_, _)
PadCandidate_ones(cs, lex) ==
  IF cs # <<>> /\ cs \notin DOMAIN lex
  THEN PadCandidate_ones(cs \o <<1>>, lex)
  ELSE cs

\* the while loop at the end of compress_data
RECURSIVE PadCandidate(_, _)
PadCandidate(cs, lex) ==
  IF cs # <<>> /\ cs \notin DOMAIN lex
  THEN PadCandidate(cs \o <<0>>, lex)
  ELSE cs

\* decompress_data's lexicon update with the two new patterns swapped
decompress_lexicon_swapped(lex, cs, idx, last_match_id) ==
  LET l1 == Put(lex, cs, last_match_id \o <<1>>)
      l2 == IF IsPowerOfTwo(idx)
            THEN [k \in {<<0>> \o c : c \in DOMAIN l1} |-> l1[Tail(k)]]
            ELSE l1
  IN  Put(l2, Bin(idx), last_match_id \o <<0>>)

\* the lexicon update of decompress_data's loop body
decompress_lexicon(lex, cs, idx, last_match_id) ==
  LET l1 == Put(lex, cs, last_match_id \o <<0>>)
      l2 == IF IsPowerOfTwo(idx)
            THEN [k \in {<<0>> \o c : c \in DOMAIN l1} |-> l1[Tail(k)]]
            ELSE l1
  IN  Put(l2, Bin(idx), last_match_id \o <<1>>)

LzIdle ==
  /\ lz_pc = "idle" /\ data_bits = <<>> /\ lexicon = InitLexicon
  /\ result = <<>> /\ curr_string = <<>> /\ index = 2 /\ i = 0
  /\ compressed = <<>> /\ d_lexicon = InitLexicon /\ d_result = <<>>
  /\ d_curr_string = <<>> /\ d_index = 2 /\ d_i = 0 /\ decompressed = <<>>
  /\ c_trace = <<>> /\ d_trace = <<>>

\* compress_data is called on a non-empty bit string
LzInit ==
  /\ lz_pc = "compress"
  /\ data_bits \in SeqsOf({0, 1}, 1, MaxBits)
  /\ lexicon = InitLexicon
  /\ result = <<>> /\ curr_string = <<>>
  /\ index = 2
  /\ i = 0
  /\ compressed = <<>> /\ d_lexicon = InitLexicon /\ d_result = <<>>
  /\ d_curr_string = <<>> /\ d_index = 2 /\ d_i = 0 /\ decompressed = <<>>
  /\ c_trace = <<>> /\ d_trace = <<>>

\* one iteration of compress_data's for loop
CompressStep ==
  /\ lz_pc = "compress"
  /\ i < Len(data_bits)
  /\ LET cs == Append(curr_string, data_bits[i + 1]) IN
       IF cs \notin DOMAIN lexicon
       THEN /\ curr_string' = cs
            /\ UNCHANGED <<lexicon, result, index, c_trace>>
       ELSE LET last_match_id == lexicon[cs] IN
            /\ result' = result \o last_match_id
            /\ lexicon' = add_key_to_lexicon(lexicon, cs, index, last_match_id)
            /\ index' = index + 1
            /\ curr_string' = <<>>
            /\ c_trace' = Append(c_trace, [matched |-> cs,
                                           emitted |-> last_match_id,
                                           index |-> index',
                                           lexicon |-> lexicon'])
  /\ i' = i + 1
  /\ UNCHANGED <<lz_pc, data_bits, compressed, d_lexicon, d_result,
                 d_curr_string, d_index, d_i, decompressed, d_trace>>
  /\ UNCHANGED <<frvars, bwvars, hfvars>>

\* the end of compress_data: pad the unmatched candidate, flush it, return;
\* the returned string is then handed to decompress_data
CompressFlush ==
  /\ lz_pc = "compress"
  /\ i = Len(data_bits)
  /\ LET cs == PadCandidate(curr_string, lexicon)
         res == IF cs # <<>> THEN result \o lexicon[cs] ELSE result
     IN  /\ curr_string' = cs
         /\ result' = res
         /\ compressed' = res
  /\ lz_pc' = "decompress"
  /\ UNCHANGED <<data_bits, lexicon, index, i, d_lexicon, d_result,
                 d_curr_string, d_index, d_i, decompressed, c_trace, d_trace>>
  /\ UNCHANGED <<frvars, bwvars, hfvars>>

\* one iteration of decompress_data's for loop
DecompressStep ==
  /\ lz_pc = "decompress"
  /\ d_i < Len(compressed)
  /\ LET cs == Append(d_curr_string, compressed[d_i + 1]) IN
       IF cs \notin DOMAIN d_lexicon
       THEN /\ d_curr_string' = cs
            /\ UNCHANGED <<d_lexicon, d_result, d_index, d_trace>>
       ELSE LET last_match_id == d_lexicon[cs] IN
            /\ d_result' = d_result \o last_match_id
            /\ d_lexicon' = decompress_lexicon(d_lexicon, cs, d_index, last_match_id)
            /\ d_index' = d_index + 1
            /\ d_curr_string' = <<>>
            /\ d_trace' = Append(d_trace, [matched |-> cs,
                                           emitted |-> last_match_id,
                                           index |-> d_index',
                                           lexicon |-> d_lexicon'])
  /\ d_i' = d_i + 1
  /\ UNCHANGED <<lz_pc, data_bits, lexicon, result, curr_string, index, i,
                 compressed, decompressed, c_trace>>
  /\ UNCHANGED <<frvars, bwvars, hfvars>>

\* decompress_data returns result
DecompressReturn ==
  /\ lz_pc = "decompress"
  /\ d_i = Len(compressed)
  /\ decompressed' = d_result
  /\ lz_pc' = "done"
  /\ UNCHANGED <<data_bits, lexicon, result, curr_string, index, i,
                 compressed, d_lexicon, d_result, d_curr_string, d_index, d_i,
                 c_trace, d_trace>>
  /\ UNCHANGED <<frvars, bwvars, hfvars>>

LzNext ==
  \/ CompressStep
  \/ CompressFlush
  \/ DecompressStep
  \/ DecompressReturn

\* ------------------------------------------------ lempel_ziv.py: framing
\* int(elem, 2)
RECURSIVE BitsToInt(_)
BitsToInt(bits) ==
  IF bits = <<>> THEN 0
  ELSE 2 * BitsToInt(SubSeq(bits, 1, Len(bits) - 1)) + bits[Len(bits)]

\* f"{dat:08b}"
ByteToBits(dat) == [k \in 1..8 |-> (dat \div (2 ^ (8 - k))) % 2]

Zeros(n) == [k \in 1..n |-> 0]

RECURSIVE Flatten(_)
Flatten(list) == IF list = <<>> THEN <<>> ELSE Head(list) \o Flatten(Tail(list))

\* the Elias-gamma style prefix: file_length stands for os.path.getsize(source_path)
add_file_length(flen, compr) ==
  LET file_length_binary == Bin(flen)
      length_length == Len(file_length_binary)
  IN  Zeros(length_length - 1) \o file_length_binary \o compr

\* [to_write[i : i + 8] for i in range(0, len(to_write), 8)]
Chunks(bits) ==
  [k \in 1..((Len(bits) + 7) \div 8) |->
     SubSeq(bits, 8 * (k - 1) + 1, IF 8 * k < Len(bits) THEN 8 * k ELSE Len(bits))]

\* the bytes written to the file; result_byte_array[-1] of an empty list raises
write_file_binary(bits) ==
  LET result_byte_array == Chunks(bits)
      n == Len(result_byte_array)
  IN  IF n = 0 THEN Raise("IndexError")
      ELSE LET last == result_byte_array[n]
               padded == IF Len(last) % 8 = 0
                         THEN Append(result_byte_array, <<1, 0, 0, 0, 0, 0, 0, 0>>)
                         ELSE [result_byte_array EXCEPT
                                 ![n] = last \o <<1>> \o Zeros(8 - Len(last) - 1)]
           IN  Ok([k \in 1..Len(padded) |-> BitsToInt(padded[k])])

read_file_binary(data) == Flatten([k \in 1..Len(data) |-> ByteToBits(data[k])])

\* the number of characters before the first "1" (all of them when there is none)
RECURSIVE LeadingZeros(_)
LeadingZeros(bits) ==
  IF bits = <<>> \/ Head(bits) = 1 THEN 0 ELSE 1 + LeadingZeros(Tail(bits))

remove_prefix(bits) ==
  LET counter == LeadingZeros(bits)
  IN  Ok(DropFirst(DropFirst(bits, counter), counter + 1))

FrIdle ==
  /\ fr_pc = "idle" /\ payload = <<>> /\ file_length = 0 /\ to_write = <<>>
  /\ file_bytes = Ok(<<>>) /\ read_bits = <<>> /\ unframed = Ok(<<>>)

\* payload: the bit string handed to the framer (or, raw, to remove_prefix)
FrInit ==
  /\ fr_pc = "start"
  /\ payload \in SeqsOf({0, 1}, 0, MaxPayload)
  /\ file_length = 0 /\ to_write = <<>>
  /\ file_bytes = Ok(<<>>) /\ read_bits = <<>> /\ unframed = Ok(<<>>)

AddFileLength ==
  /\ fr_pc = "start"
  /\ \E n \in 0..MaxFileLength :
       /\ file_length' = n
       /\ to_write' = add_file_length(n, payload)
  /\ fr_pc' = "prefixed"
  /\ UNCHANGED <<payload, file_bytes, read_bits, unframed>>
  /\ UNCHANGED <<lzvars, bwvars, hfvars>>

WriteFileBinary ==
  /\ fr_pc = "prefixed"
  /\ file_bytes' = write_file_binary(to_write)
  /\ fr_pc' = "written"
  /\ UNCHANGED <<payload, file_length, to_write, read_bits, unframed>>
  /\ UNCHANGED <<lzvars, bwvars, hfvars>>

ReadFileBinary ==
  /\ fr_pc = "written"
  /\ file_bytes.err = "none"
  /\ read_bits' = read_file_binary(file_bytes.val)
  /\ fr_pc' = "read"
  /\ UNCHANGED <<payload, file_length, to_write, file_bytes, unframed>>
  /\ UNCHANGED <<lzvars, bwvars, hfvars>>

RemovePrefix ==
  /\ fr_pc = "read"
  /\ unframed' = remove_prefix(read_bits)
  /\ fr_pc' = "unframed"
  /\ UNCHANGED <<payload, file_length, to_write, file_bytes, read_bits>>
  /\ UNCHANGED <<lzvars, bwvars, hfvars>>

\* remove_prefix called on an arbitrary bit stream
RemovePrefixRaw ==
  /\ fr_pc = "start"
  /\ read_bits' = payload
  /\ unframed' = remove_prefix(payload)
  /\ fr_pc' = "unframed_raw"
  /\ UNCHANGED <<payload, file_length, to_write, file_bytes>>
  /\ UNCHANGED <<lzvars, bwvars, hfvars>>

FrNext ==
  \/ AddFileLength
  \/ WriteFileBinary
  \/ ReadFileBinary
  \/ RemovePrefix
  \/ RemovePrefixRaw

\* ---------------------------------------------------- burrows_wheeler.py
\* Python's <= on two strings
RECURSIVE StrLeq(_, _)
StrLeq(a, b) ==
  IF a = <<>> THEN TRUE
  ELSE IF b = <<>> THEN FALSE
  ELSE IF Head(a) # Head(b) THEN Head(a) < Head(b)
  ELSE StrLeq(Tail(a), Tail(b))

\* insert x after every element that is <= x
RECURSIVE InsertStr(_, _)
InsertStr(x, list) ==
  IF list = <<>> THEN <<x>>
  ELSE IF StrLeq(Head(list), x) THEN <<Head(list)>> \o InsertStr(x, Tail(list))
  ELSE <<x>> \o list

\* list.sort() on a list of strings
RECURSIVE SortStrs(_)
SortStrs(list) ==
  IF list = <<>> THEN <<>>
  ELSE InsertStr(list[Len(list)], SortStrs(SubSeq(list, 1, Len(list) - 1)))

\* list.index(x), 0-based, for x in list
RECURSIVE IndexOf(_, _)
IndexOf(list, x) == IF Head(list) = x THEN 0 ELSE 1 + IndexOf(Tail(list), x)

\* [s[i:] + s[:i] for i in range(len(s))]
all_rotations(str) ==
  [k \in 1..Len(str) |-> SubSeq(str, k, Len(str)) \o SubSeq(str, 1, k - 1)]

\* bwt_transform with rotations.index(s) taken before rotations.sort()
bwt_transform_unsorted_index(str) ==
  IF str = <<>> THEN Raise("ValueError")
  ELSE LET rotations == SortStrs(all_rotations(str))
       IN  Ok([bwt_string |-> [k \in 1..Len(rotations) |-> rotations[k][Len(str)]],
               idx_original_string |-> IndexOf(all_rotations(str), str)])

\* the argument is a str, so the isinstance check passes
bwt_transform(str) ==
  IF str = <<>> THEN Raise("ValueError")
  ELSE LET rotations == SortStrs(all_rotations(str))
       IN  Ok([bwt_string |-> [k \in 1..Len(rotations) |-> rotations[k][Len(str)]],
               idx_original_string |-> IndexOf(rotations, str)])

\* the n rounds of "prepend bwt_string[i] to row i, then sort"
RECURSIVE ReverseRounds(_, _, _)
ReverseRounds(bwt, rows, rounds) ==
  IF rounds = 0 THEN rows
  ELSE ReverseRounds(bwt,
                     SortStrs([k \in 1..Len(bwt) |-> <<bwt[k]>> \o rows[k]]),
                     rounds - 1)

\* reverse_bwt without the idx < 0 check: a negative index counts from the end
reverse_bwt_negative_wraps(bwt, idx) ==
  IF bwt = <<>> THEN Raise("ValueError")
  ELSE IF idx >= Len(bwt) THEN Raise("ValueError")
  ELSE IF idx < 0 - Len(bwt) THEN Raise("IndexError")
  ELSE LET ordered_rotations ==
             ReverseRounds(bwt, [k \in 1..Len(bwt) |-> <<>>], Len(bwt))
       IN  Ok(ordered_rotations[IF idx < 0 THEN Len(bwt) + idx + 1 ELSE idx + 1])

\* the arguments are a str and an int, so the type checks and int() pass
reverse_bwt(bwt, idx) ==
  IF bwt = <<>> THEN Raise("ValueError")
  ELSE IF idx < 0 THEN Raise("ValueError")
  ELSE IF idx >= Len(bwt) THEN Raise("ValueError")
  ELSE LET ordered_rotations ==
             ReverseRounds(bwt, [k \in 1..Len(bwt) |-> <<>>], Len(bwt))
       IN  Ok(ordered_rotations[idx + 1])

NoBwt == [bwt_string |-> <<>>, idx_original_string |-> 0]

BwIdle ==
  /\ bw_pc = "idle" /\ s = <<>> /\ bwt_result = Ok(NoBwt)
  /\ rev_idx = 0 /\ rev_result = Ok(<<>>)

BwInit ==
  /\ bw_pc = "start"
  /\ s \in SeqsOf(Alphabet, 0, MaxLen)
  /\ bwt_result = Ok(NoBwt)
  /\ rev_idx = 0 /\ rev_result = Ok(<<>>)

BwtTransform ==
  /\ bw_pc = "start"
  /\ bwt_result' = (LET r == bwt_transform(s) IN
                      IF r.err = "none" THEN r ELSE [r EXCEPT !.val = NoBwt])
  /\ bw_pc' = "transformed"
  /\ UNCHANGED <<s, rev_idx, rev_result>>
  /\ UNCHANGED <<lzvars, frvars, hfvars>>

\* reverse_bwt on what bwt_transform returned
ReverseBwt ==
  /\ bw_pc = "transformed"
  /\ bwt_result.err = "none"
  /\ rev_idx' = bwt_result.val.idx_original_string
  /\ rev_result' = reverse_bwt(bwt_result.val.bwt_string,
                               bwt_result.val.idx_original_string)
  /\ bw_pc' = "reversed"
  /\ UNCHANGED <<s, bwt_result>>
  /\ UNCHANGED <<lzvars, frvars, hfvars>>

\* reverse_bwt on an arbitrary string s and an arbitrary index
ReverseBwtAny ==
  /\ bw_pc = "start"
  /\ \E idx \in (-2)..(MaxLen + 1) :
       /\ rev_idx' = idx
       /\ rev_result' = reverse_bwt(s, idx)
  /\ bw_pc' = "reversed_any"
  /\ UNCHANGED <<s, bwt_result>>
  /\ UNCHANGED <<lzvars, frvars, hfvars>>

BwNext ==
  \/ BwtTransform
  \/ ReverseBwt
  \/ ReverseBwtAny

\* ------------------------------------------------------------ huffman.py
\* Letter(letter, freq); its bitstring dict is filled by traverse_tree
Letter(c, f) == [letter |-> c, freq |-> f]

TreeNode(f, l, r) == [freq |-> f, left |-> l, right |-> r]

\* isinstance(root, Letter)
IsLetter(x) == "letter" \in DOMAIN x

\* the keys of the dict chars, in insertion order: each symbol where it first occurs
RECURSIVE FirstOccurrences(_)
FirstOccurrences(list) ==
  IF list = <<>> THEN <<>>
  ELSE LET init == SubSeq(list, 1, Len(list) - 1)
           c == list[Len(list)]
       IN  IF \E k \in 1..Len(init) : init[k] = c
           THEN FirstOccurrences(init)
           ELSE Append(FirstOccurrences(init), c)

\* chars[c] at the end of parse_file's loop
Count(list, c) == Cardinality({k \in 1..Len(list) : list[k] = c})

\* insert x after every element whose freq is <= x.freq
RECURSIVE InsertByFreq(_, _)
InsertByFreq(x, list) ==
  IF list = <<>> THEN <<x>>
  ELSE IF Head(list).freq <= x.freq
       THEN <<Head(list)>> \o InsertByFreq(x, Tail(list))
       ELSE <<x>> \o list

\* sorted(..., key=lambda x: x.freq) and list.sort(key=...): stable
RECURSIVE SortByFreq(_)
SortByFreq(list) ==
  IF list = <<>> THEN <<>>
  ELSE InsertByFreq(list[Len(list)], SortByFreq(SubSeq(list, 1, Len(list) - 1)))

\* parse_file returning the letters in insertion order, not sorted by freq
parse_file_unsorted(raw) ==
  LET keys == FirstOccurrences(raw)
  IN  [k \in 1..Len(keys) |-> Letter(keys[k], Count(raw, keys[k]))]

parse_file(raw) ==
  LET keys == FirstOccurrences(raw)
  IN  SortByFreq([k \in 1..Len(keys) |-> Letter(keys[k], Count(raw, keys[k]))])

\* build_tree for a non-empty list (response[0] of an empty list raises)
RECURSIVE build_tree(_)
build_tree(response) ==
  IF Len(response) > 1
  THEN LET left == response[1]
           right == response[2]
           total_freq == left.freq + right.freq
           node == TreeNode(total_freq, left, right)
       IN  build_tree(SortByFreq(Append(SubSeq(response, 3, Len(response)), node)))
  ELSE response[1]

\* traverse_tree appending "0" on the right edge too
RECURSIVE traverse_tree_same_bit(_, _)
traverse_tree_same_bit(root, bitstring) ==
  IF IsLetter(root) THEN <<[k |-> root.letter, v |-> bitstring]>>
  ELSE traverse_tree_same_bit(root.left, bitstring \o <<0>>)
         \o traverse_tree_same_bit(root.right, bitstring \o <<0>>)

\* the letters met, each with the one entry {letter: bitstring} of its bitstring dict
RECURSIVE traverse_tree(_, _)
traverse_tree(root, bitstring) ==
  IF IsLetter(root) THEN <<[k |-> root.letter, v |-> bitstring]>>
  ELSE traverse_tree(root.left, bitstring \o <<0>>)
         \o traverse_tree(root.right, bitstring \o <<1>>)

\* letters[c]
Lookup(letters, c) == letters[CHOOSE k \in 1..Len(letters) : letters[k].k = c].v

NoHuf == [Huf_encode |-> <<>>, Huf_letters |-> <<>>]

huffman_encode(raw) ==
  LET letters_list == parse_file(raw)
  IN  IF letters_list = <<>> THEN [err |-> "IndexError", val |-> NoHuf]
      ELSE LET root == build_tree(letters_list)
               letters == traverse_tree(root, <<>>)
           IN  Ok([Huf_encode |-> [k \in 1..Len(raw) |-> Lookup(letters, raw[k])],
                   Huf_letters |-> letters])

\* the string "Key Not Found"
KeyNotFound == <<75, 101, 121, 32, 78, 111, 116, 32, 70, 111, 117, 110, 100>>

RECURSIVE return_key(_, _)
return_key(huf_letters, item) ==
  IF huf_letters = <<>> THEN KeyNotFound
  ELSE IF Head(huf_letters).v = item THEN Head(huf_letters).k
  ELSE return_key(Tail(huf_letters), item)

\* huffman_decode stopping one bitstring short
huffman_decode_drop_last(hf) ==
  Ok([k \in 1..(Len(hf.Huf_encode) - 1) |->
        return_key(hf.Huf_letters, hf.Huf_encode[k])])

huffman_decode(hf) ==
  Ok([k \in 1..Len(hf.Huf_encode) |-> return_key(hf.Huf_letters, hf.Huf_encode[k])])

\* "".join(list)
Join(list) == Flatten(list)

bwt_huffman_encode(raw) ==
  LET bwt == bwt_transform(Join(raw))
  IN  IF bwt.err # "none" THEN [err |-> bwt.err, val |-> NoHuf]
      ELSE LET temp == [k \in 1..Len(bwt.val.bwt_string) |-> <<bwt.val.bwt_string[k]>>]
               enc == huffman_encode(temp)
           IN  IF enc.err # "none" THEN enc
               ELSE Ok([Huf_encode |-> enc.val.Huf_encode,
                        Huf_letters |-> enc.val.Huf_letters,
                        idx_original_string |-> bwt.val.idx_original_string])

\* bwt_huffman_decode ignoring the carried index
bwt_huffman_decode_idx0(hf) ==
  LET huf_decode == huffman_decode(hf)
  IN  reverse_bwt(Join(huf_decode.val), 0)

bwt_huffman_decode(hf) ==
  LET huf_decode == huffman_decode(hf)
  IN  reverse_bwt(Join(huf_decode.val), hf.idx_original_string)

\* the bit strings a tampered code is drawn from
Codes == SeqsOf({0, 1}, 0, 2)

HfIdle ==
  /\ hf_pc = "idle" /\ raw_file_list = <<>> /\ huf_file = Ok(NoHuf)
  /\ huf_decoded = Ok(<<>>) /\ bwt_huf_decoded = Ok(<<>>)

\* raw_file_list: a list of one-character strings
HfInit ==
  /\ hf_pc = "start"
  /\ raw_file_list \in SeqsOf({<<c>> : c \in Alphabet}, 0, MaxSymbols)
  /\ huf_file = Ok(NoHuf)
  /\ huf_decoded = Ok(<<>>) /\ bwt_huf_decoded = Ok(<<>>)

HuffmanEncode ==
  /\ hf_pc = "start"
  /\ huf_file' = huffman_encode(raw_file_list)
  /\ hf_pc' = "encoded"
  /\ UNCHANGED <<raw_file_list, huf_decoded, bwt_huf_decoded>>
  /\ UNCHANGED <<lzvars, frvars, bwvars>>

\* huffman_decode on what huffman_encode returned
HuffmanDecode ==
  /\ hf_pc = "encoded"
  /\ huf_file.err = "none"
  /\ huf_decoded' = huffman_decode(huf_file.val)
  /\ hf_pc' = "decoded"
  /\ UNCHANGED <<raw_file_list, huf_file, bwt_huf_decoded>>
  /\ UNCHANGED <<lzvars, frvars, bwvars>>

\* huffman_decode on the encoded list with its first bitstring replaced
HuffmanDecodeTampered ==
  /\ hf_pc = "encoded"
  /\ huf_file.err = "none"
  /\ \E c \in Codes :
       LET hf == [huf_file.val EXCEPT !.Huf_encode[1] = c] IN
         /\ huf_file' = Ok(hf)
         /\ huf_decoded' = huffman_decode(hf)
  /\ hf_pc' = "decoded_tampered"
  /\ UNCHANGED <<raw_file_list, bwt_huf_decoded>>
  /\ UNCHANGED <<lzvars, frvars, bwvars>>

BwtHuffmanEncode ==
  /\ hf_pc = "start"
  /\ huf_file' = bwt_huffman_encode(raw_file_list)
  /\ hf_pc' = "bwt_encoded"
  /\ UNCHANGED <<raw_file_list, huf_decoded, bwt_huf_decoded>>
  /\ UNCHANGED <<lzvars, frvars, bwvars>>

BwtHuffmanDecode ==
  /\ hf_pc = "bwt_encoded"
  /\ huf_file.err = "none"
  /\ huf_decoded' = huffman_decode(huf_file.val)
  /\ bwt_huf_decoded' = bwt_huffman_decode(huf_file.val)
  /\ hf_pc' = "bwt_decoded"
  /\ UNCHANGED <<raw_file_list, huf_file>>
  /\ UNCHANGED <<lzvars, frvars, bwvars>>

HfNext ==
  \/ HuffmanEncode
  \/ HuffmanDecode
  \/ HuffmanDecodeTampered
  \/ BwtHuffmanEncode
  \/ BwtHuffmanDecode

\* --------------------------------------------------------- specifications
\* one run of compress_data followed by decompress_data on its output
InitLZ == LzInit /\ FrIdle /\ BwIdle /\ HfIdle
SpecLZ == InitLZ /\ [][LzNext]_vars

\* framing a payload and unframing it, or unframing a raw stream
InitFrame == LzIdle /\ FrInit /\ BwIdle /\ HfIdle
SpecFrame == InitFrame /\ [][FrNext]_vars

\* bwt_transform and reverse_bwt
InitBWT == LzIdle /\ FrIdle /\ BwInit /\ HfIdle
SpecBWT == InitBWT /\ [][BwNext]_vars

\* the Huffman coder and the BWT-Huffman pipeline
InitHuffman == LzIdle /\ FrIdle /\ BwIdle /\ HfInit
SpecHuffman == InitHuffman /\ [][HfNext]_vars

Init == InitLZ \/ InitFrame \/ InitBWT \/ InitHuffman

Next == LzNext \/ FrNext \/ BwNext \/ HfNext

Spec == Init /\ [][Next]_vars

\* ----------------------------------------------------------------- claims
IsPrefix(a, b) == Len(a) <= Len(b) /\ SubSeq(b, 1, Len(a)) = a

DistinctSymbols(list) == {list[k] : k \in 1..Len(list)}

\* C1: for every non-empty bit string b, decompress_data(compress_data(b))
\* equals b exactly.
C1_LzRoundTrip == lz_pc = "done" => decompressed = data_bits

\* C2: for every non-empty string s, reverse_bwt on what bwt_transform(s)
\* returned gives back s, periodic strings included, and idx_original_string
\* is the rank of the first sorted rotation equal to s.
C2_BwtRoundTrip ==
  bw_pc = "reversed" =>
    /\ rev_result = Ok(s)
    /\ LET rows == SortStrs(all_rotations(s))
           idx == bwt_result.val.idx_original_string
       IN  /\ idx \in 0..(Len(s) - 1)
           /\ rows[idx + 1] = s
           /\ \A j \in 1..idx : rows[j] # s

\* C2 witness: the periodic string "abab" has gone through both transforms.
C2_Witness ==
  /\ bw_pc = "reversed"
  /\ s = <<97, 98, 97, 98>>
  /\ bwt_result.val.bwt_string = <<98, 98, 97, 97>>
  /\ rev_result.val = s

\* C3: for every non-empty symbol list, huffman_decode(huffman_encode(list))
\* equals the list, element by element.
C3_HuffmanRoundTrip ==
  hf_pc = "decoded" => huf_decoded = Ok(raw_file_list)

\* C3 witness: a list of one repeated symbol has been encoded and decoded.
C3_Witness ==
  /\ hf_pc = "decoded"
  /\ Len(raw_file_list) >= 2
  /\ Cardinality(DistinctSymbols(raw_file_list)) = 1
  /\ Len(huf_decoded.val) = Len(raw_file_list)

\* C4: in every code table huffman_encode builds, no symbol's code is a prefix
\* of another symbol's code.
C4_PrefixFree ==
  (hf_pc \in {"encoded", "bwt_encoded"} /\ huf_file.err = "none") =>
    LET letters == huf_file.val.Huf_letters IN
      \A x \in 1..Len(letters) : \A y \in 1..Len(letters) :
        letters[x].k # letters[y].k => ~IsPrefix(letters[x].v, letters[y].v)

\* C4 witness: a table of four symbols whose codes have three different lengths.
C4_Witness ==
  /\ hf_pc = "encoded"
  /\ Len(huf_file.val.Huf_letters) = 4
  /\ {Len(huf_file.val.Huf_letters[x].v) : x \in 1..4} = {1, 2, 3}

\* C5: framing a bit string p with length len(p) (length prefix, sentinel and
\* zero padding, packed into bytes) and unframing the bits read back returns
\* exactly p.
C5_FramingRoundTrip ==
  (fr_pc = "unframed" /\ file_length = Len(payload)) => unframed = Ok(payload)

\* C6: for every non-empty list of one-character symbols,
\* bwt_huffman_decode(bwt_huffman_encode(list)) is the concatenation of the
\* list: Huffman decoding recovers the BWT string and reverse_bwt with the
\* carried index recovers the input.
C6_PipelineRoundTrip ==
  hf_pc = "bwt_decoded" =>
    /\ bwt_huf_decoded = Ok(Join(raw_file_list))
    /\ Join(huf_decoded.val) = bwt_transform(Join(raw_file_list)).val.bwt_string

\* C6 witness: a list of three distinct symbols whose index is not 0 has gone
\* through the pipeline.
C6_Witness ==
  /\ hf_pc = "bwt_decoded"
  /\ Cardinality(DistinctSymbols(raw_file_list)) >= 3
  /\ huf_file.val.idx_original_string > 0
  /\ bwt_huf_decoded.err = "none"

\* C7: when the input of huffman_encode has exactly one distinct symbol, the
\* code table has exactly one entry and its code is the one-bit string "0".
C7_SingleSymbolCode ==
  (/\ hf_pc = "encoded"
   /\ huf_file.err = "none"
   /\ Cardinality(DistinctSymbols(raw_file_list)) = 1) =>
    huf_file.val.Huf_letters = <<[k |-> raw_file_list[1], v |-> <<0>>]>>

\* C8: huffman_decode fails with UnknownCode, producing no symbol list,
\* whenever some bitstring of the encoded sequence equals no code of the table.
C8_UnknownCode ==
  (/\ hf_pc = "decoded_tampered"
   /\ \E k \in 1..Len(huf_file.val.Huf_encode) :
        \A x \in 1..Len(huf_file.val.Huf_letters) :
          huf_file.val.Huf_letters[x].v # huf_file.val.Huf_encode[k]) =>
    (huf_decoded.err = "UnknownCode" /\ huf_decoded.val = <<>>)

\* C9: remove_prefix fails with MalformedStream, returning no payload, when
\* the stream has c leading zero bits but fewer than 2c+1 bits in all, or has
\* no '1' bit at all.
C9_MalformedStream ==
  (/\ fr_pc = "unframed_raw"
   /\ \/ Len(read_bits) < 2 * LeadingZeros(read_bits) + 1
      \/ \A k \in 1..Len(read_bits) : read_bits[k] # 1) =>
    (unframed.err = "MalformedStream" /\ unframed.val = <<>>)

\* C10: reverse_bwt raises and returns no string when bwt_string is empty,
\* idx < 0 or idx >= len(bwt_string), and bwt_transform raises on the empty
\* string; otherwise reverse_bwt returns a string as long as bwt_string.
C10_BwtErrors ==
  /\ bw_pc = "reversed_any" =>
       IF s = <<>> \/ rev_idx < 0 \/ rev_idx >= Len(s)
       THEN rev_result.err # "none" /\ rev_result.val = <<>>
       ELSE rev_result.err = "none" /\ Len(rev_result.val) = Len(s)
  /\ (bw_pc = "transformed" /\ s = <<>>) => bwt_result.err # "none"
  /\ (bw_pc = "transformed" /\ s # <<>>) => bwt_result.err = "none"

\* C10 witness: reverse_bwt was called with idx = len(bwt_string) and raised.
C10_Witness ==
  /\ bw_pc = "reversed_any"
  /\ s # <<>>
  /\ rev_idx = Len(s)
  /\ rev_result.err = "ValueError"

\* C11: in the code table huffman_encode builds, a symbol that occurs more
\* often than another never has the longer code of the two.
C11_FrequentNotLonger ==
  (hf_pc = "encoded" /\ huf_file.err = "none") =>
    LET letters == huf_file.val.Huf_letters IN
      \A x \in 1..Len(letters) : \A y \in 1..Len(letters) :
        Count(raw_file_list, letters[x].k) > Count(raw_file_list, letters[y].k)
          => Len(letters[x].v) <= Len(letters[y].v)

\* C11 witness: a table of three symbols with three different counts, the
\* most frequent one holding a strictly shorter code than the least frequent.
C11_Witness ==
  /\ hf_pc = "encoded"
  /\ Len(huf_file.val.Huf_letters) = 3
  /\ {Count(raw_file_list, huf_file.val.Huf_letters[x].k) : x \in 1..3} = {1, 2, 3}
  /\ \E x \in 1..3 : \E y \in 1..3 :
       /\ Count(raw_file_list, huf_file.val.Huf_letters[x].k) = 3
       /\ Count(raw_file_list, huf_file.val.Huf_letters[y].k) = 1
       /\ Len(huf_file.val.Huf_letters[x].v) < Len(huf_file.val.Huf_letters[y].v)

\* the least w with 2^w >= n, for n >= 1
CeilLog2(n) == CHOOSE w \in 0..n : 2 ^ w >= n /\ \A v \in 0..(w - 1) : 2 ^ v < n

ExactPowerOfTwo(n) == \E e \in 0..n : 2 ^ e = n

\* the lengths of the codes a lexicon stores
Widths(lex) == {Len(lex[k]) : k \in DOMAIN lex}

\* compress_data's index and lexicon after its k-th coder step (0: at the start)
CoderState(k) ==
  IF k = 0 THEN [index |-> 2, lexicon |-> InitLexicon]
  ELSE [index |-> c_trace[k].index, lexicon |-> c_trace[k].lexicon]

\* C12: in compress_data, at the start and after every coder step, the lexicon
\* holds exactly index entries, all codes of the one width ceil(log2(index));
\* each step adds one entry and the width grows by one bit on exactly the
\* steps taken with index a power of two.
C12_LexiconGrowth ==
  lz_pc # "idle" =>
    /\ Cardinality(DOMAIN lexicon) = index
    /\ Widths(lexicon) = {CeilLog2(index)}
    /\ \A k \in 0..Len(c_trace) :
         /\ Cardinality(DOMAIN CoderState(k).lexicon) = CoderState(k).index
         /\ Widths(CoderState(k).lexicon) = {CeilLog2(CoderState(k).index)}
    /\ \A k \in 1..Len(c_trace) :
         LET pre == CoderState(k - 1)
             post == CoderState(k)
         IN  /\ post.index = pre.index + 1
             /\ Cardinality(DOMAIN post.lexicon) = Cardinality(DOMAIN pre.lexicon) + 1
             /\ Widths(post.lexicon) =
                  {w + (IF ExactPowerOfTwo(pre.index) THEN 1 ELSE 0) :
                     w \in Widths(pre.lexicon)}

\* C12 witness: six coder steps done, index is 8 and the codes are 3 bits wide
\* after growing at index 2 and at index 4.
C12_Witness ==
  /\ lz_pc = "compress"
  /\ Len(c_trace) = 6
  /\ index = 8
  /\ Widths(lexicon) = {3}
  /\ Widths(CoderState(2).lexicon) = {2}

\* d (code -> bit pattern) is the inverse mapping of c (bit pattern -> code)
IsInverse(d, c) ==
  /\ Cardinality(DOMAIN d) = Cardinality(DOMAIN c)
  /\ DOMAIN d = {c[k] : k \in DOMAIN c}
  /\ \A k \in DOMAIN c : d[c[k]] = k

StepsOfBoth == IF Len(d_trace) < Len(c_trace) THEN Len(d_trace) ELSE Len(c_trace)

\* C13: after the k-th coder step of compress_data on b and of decompress_data
\* on compress_data(b), for every k up to the steps of the compressor's main
\* loop, both have the same index, the decoder's lexicon is the inverse of the
\* encoder's, and the k-th string the decoder emits is the k-th candidate the
\* encoder matched.
C13_LockStep ==
  \A k \in 1..StepsOfBoth :
    /\ d_trace[k].index = c_trace[k].index
    /\ IsInverse(d_trace[k].lexicon, c_trace[k].lexicon)
    /\ d_trace[k].emitted = c_trace[k].matched

\* C13 witness: the decoder has done its fifth step, past the growth at index
\* 4, and the encoder's main loop had done at least as many.
C13_Witness ==
  /\ lz_pc = "decompress"
  /\ Len(d_trace) = 5
  /\ Len(c_trace) >= 5
  /\ Widths(c_trace[5].lexicon) = {3}
  /\ d_trace[5].matched = c_trace[5].emitted

\* the input bits the coder steps of compress_data consumed
Consumed == Flatten([k \in 1..Len(c_trace) |-> c_trace[k].matched])

\* the candidate left unmatched when compress_data's main loop ended
LeftOver == DropFirst(data_bits, Len(Consumed))

\* C14: for every non-empty bit string b, decompress_data(compress_data(b)) is
\* b followed by zeros only, namely the zeros compress_data padded the last
\* unmatched candidate with, and it equals b exactly when no candidate was
\* left over at the end of the input.
C14_PrefixThenZeros ==
  lz_pc = "done" =>
    /\ IsPrefix(data_bits, decompressed)
    /\ \A k \in (Len(data_bits) + 1)..Len(decompressed) : decompressed[k] = 0
    /\ IsPrefix(LeftOver, curr_string)
    /\ Len(decompressed) - Len(data_bits) = Len(curr_string) - Len(LeftOver)
    /\ (decompressed = data_bits) <=> (LeftOver = <<>>)

\* C14 witness: a candidate was left over and padded with two zeros.
C14_Witness ==
  /\ lz_pc = "done"
  /\ LeftOver # <<>>
  /\ Len(curr_string) = Len(LeftOver) + 2
  /\ Len(decompressed) = Len(data_bits) + 2

=============================================================================
